---- MODULE Spec2Model ----
(***************************************************************************)
(* Exam timetabling core: conflict-graph construction, the three period    *)
(* assignment algorithms (greedy, DSATUR, simulated annealing), the        *)
(* scheduler page's timeslot remapping and the room allocator.             *)
(*                                                                         *)
(* Identifiers are strings.  An optional value (Python None or a value) is *)
(* a sequence of length 0 or 1.  A dict is a function whose DOMAIN is its  *)
(* key set; the empty dict is << >>.                                       *)
(***************************************************************************)
EXTENDS Integers, Sequences, FiniteSets, TLC

(***************************************************************************)
(* Bounds of the model.                                                    *)
(***************************************************************************)
MaxNodes == 3
MaxCalls == 2
MaxPeriods == 2
MaxIters == 2
MaxRows == 3
MaxSlots == 2
MaxRooms == 3

\* Course identifiers in insertion order; a graph of n courses uses the first n.
CourseIdList == <<"A", "B", "C", "D", "E", "F">>

(***************************************************************************)
(* Generic helpers.                                                        *)
(***************************************************************************)
Range(s) == {s[i] : i \in DOMAIN s}

MaxOf(S) == CHOOSE m \in S : \A x \in S : x <= m

MinOf(S) == CHOOSE m \in S : \A x \in S : m <= x

IndexOf(s, x) == CHOOSE i \in DOMAIN s : s[i] = x

(***************************************************************************)
(* networkx.Graph as the code uses it: nodes in insertion order, and a     *)
(* symmetric adjacency (add_edge(a, b) records b under a and a under b).   *)
(***************************************************************************)
EmptyGraph == [nodes |-> << >>, adj |-> {}]

HasNode(G, n) == n \in Range(G.nodes)

AddNode(G, n) ==
    IF HasNode(G, n) THEN G ELSE [G EXCEPT !.nodes = Append(@, n)]

AddEdge(G, a, b) ==
    LET G1 == AddNode(AddNode(G, a), b)
    IN  [G1 EXCEPT !.adj = @ \cup {<<a, b>>, <<b, a>>}]

Neighbors(G, v) == {u \in Range(G.nodes) : <<v, u>> \in G.adj}

\* G.degree(n): a self-loop counts twice.
Degree(G, v) ==
    Cardinality(Neighbors(G, v)) + (IF <<v, v>> \in G.adj THEN 1 ELSE 0)

\* G.edges(): every undirected edge once.
Edges(G) ==
    {e \in G.adj : IndexOf(G.nodes, e[1]) <= IndexOf(G.nodes, e[2])}

(***************************************************************************)
(* graph_builder.py                                                        *)
(***************************************************************************)
\* str.upper(), on the letters the model's identifiers use.
UpperChar(c) ==
    CASE c = "a" -> "A"
      [] c = "b" -> "B"
      [] c = "c" -> "C"
      [] c = "d" -> "D"
      [] c = "s" -> "S"
      [] c = "t" -> "T"
      [] OTHER -> c

RECURSIVE Upper(_)
Upper(str) ==
    IF str = "" THEN ""
    ELSE UpperChar(SubSeq(str, 1, 1)) \o Upper(SubSeq(str, 2, Len(str)))

\* str.strip(): leading and trailing blanks removed, inner ones kept.
RECURSIVE LStrip(_)
LStrip(str) ==
    IF str # "" /\ SubSeq(str, 1, 1) = " "
    THEN LStrip(SubSeq(str, 2, Len(str))) ELSE str

RECURSIVE RStrip(_)
RStrip(str) ==
    IF str # "" /\ SubSeq(str, Len(str), Len(str)) = " "
    THEN RStrip(SubSeq(str, 1, Len(str) - 1)) ELSE str

Strip(str) == RStrip(LStrip(str))

\* Mutant: upper-cased but not stripped.
NormCourse_NoStrip(cid) == Upper(cid)

\* .astype(str).str.strip().str.upper()
NormCourse(cid) == Upper(Strip(cid))

\* .astype(str).str.strip()
NormStudent(sid) == Strip(sid)

\* Lines 34-35: both columns of the enrollments frame, rewritten in place.
NormalizeRows(rows) ==
    [i \in DOMAIN rows |->
        [student_id |-> NormStudent(rows[i].student_id),
         course_id |-> NormCourse(rows[i].course_id)]]

\* Series.unique(): the values in order of first appearance.
RECURSIVE Unique(_)
Unique(s) ==
    IF s = << >> THEN << >>
    ELSE LET front == Unique(SubSeq(s, 1, Len(s) - 1))
             x == s[Len(s)]
         IN  IF x \in Range(front) THEN front ELSE Append(front, x)

RECURSIVE AddNodes(_, _)
AddNodes(G, ids) ==
    IF ids = << >> THEN G
    ELSE AddNodes(AddNode(G, Head(ids)), Tail(ids))

\* groupby("student_id")["course_id"].apply(list): one student's courses in
\* row order, repetitions kept.
CoursesOf(rows, sid) ==
    LET Mine(r) == r.student_id = sid
        mine == SelectSeq(rows, Mine)
    IN  [i \in DOMAIN mine |-> mine[i].course_id]

\* Mutant: only neighbouring positions of the list are paired.
PairPositions_Adjacent(n) == {<<i, i + 1>> : i \in 1..(n - 1)}

\* for i in range(n): for j in range(i + 1, n)
PairPositions(n) == {p \in (1..n) \X (1..n) : p[1] < p[2]}

\* Mutant: the pair is added whether or not its courses differ.
IsConflictPair_NoCheck(a, b) == TRUE

\* if a != b
IsConflictPair(a, b) == a # b

\* Lines 56-63 for one student: the edges of the student's course list.
StudentEdges(courses) ==
    {<<courses[p[1]], courses[p[2]]>> : p \in
        {q \in PairPositions(Len(courses)) :
            IsConflictPair(courses[q[1]], courses[q[2]])}}

\* G.add_edge for every pair of a set of pairs (both nodes exist already).
AddEdges(G, ps) ==
    [G EXCEPT !.adj = @ \cup ps \cup {<<p[2], p[1]>> : p \in ps}]

\* The position of the first blank of str, Len(str) + 1 if it has none.
FirstBlank(str) ==
    IF \E i \in 1..Len(str) : SubSeq(str, i, i) = " "
    THEN MinOf({i \in 1..Len(str) : SubSeq(str, i, i) = " "})
    ELSE Len(str) + 1

\* str.split(): the maximal runs of non-blank characters.
RECURSIVE Split(_)
Split(str) ==
    LET rest == LStrip(str)
        cut  == FirstBlank(rest)
    IN  IF rest = "" THEN << >>
        ELSE <<SubSeq(rest, 1, cut - 1)>>
             \o Split(SubSeq(rest, cut, Len(rest)))

\* Mutant: the course ids of a line are not upper-cased.
LineCourses_NoUpper(line) ==
    LET tokens == Split(Strip(line))
    IN  [i \in DOMAIN tokens |-> Strip(tokens[i])]

\* Line 79: [c.strip().upper() for c in line.strip().split() if c.strip()]
LineCourses(line) ==
    LET tokens == Split(Strip(line))
        Kept(c) == Strip(c) # ""
        kept == SelectSeq(tokens, Kept)
    IN  [i \in DOMAIN kept |-> Upper(Strip(kept[i]))]

\* Lines 78-86: the nodes and edges of every line, line after line.
RECURSIVE AddLines(_, _)
AddLines(G, lines) ==
    IF lines = << >> THEN G
    ELSE LET courses == LineCourses(Head(lines))
         IN  AddLines(AddEdges(AddNodes(G, Unique(courses)),
                               StudentEdges(courses)),
                      Tail(lines))

\* Mutant: the roster is ignored.
BuildGraphFromStu_NoRoster(lines, roster) == AddLines(EmptyGraph, lines)

\* build_conflict_graph_from_stu_file
BuildGraphFromStu(lines, roster) ==
    LET G1 == AddLines(EmptyGraph, lines)
    IN  IF roster = << >> THEN G1
        ELSE AddNodes(G1, Unique([i \in DOMAIN roster[1] |->
                                     NormCourse(roster[1][i])]))

\* build_conflict_graph_from_enrollments, on the normalized rows.
BuildGraph(rows, roster) ==
    LET G1 == AddNodes(EmptyGraph,
                       Unique([i \in DOMAIN rows |-> rows[i].course_id]))
        G2 == IF roster = << >> THEN G1
              ELSE AddNodes(G1, Unique([i \in DOMAIN roster[1] |->
                                           NormCourse(roster[1][i])]))
        students == {rows[i].student_id : i \in DOMAIN rows}
    IN  AddEdges(G2, UNION {StudentEdges(CoursesOf(rows, sid)) : sid \in students})

(***************************************************************************)
(* evaluation.py                                                           *)
(***************************************************************************)
\* timeslots.set_index("timeslot_id")["duration_min"].astype(int)
TimeslotLen(slots) ==
    [t \in {slots[i].timeslot_id : i \in DOMAIN slots} |->
        slots[CHOOSE i \in DOMAIN slots : slots[i].timeslot_id = t].duration_min]

\* courses.loc[courses["course_id"] == cid, "exam_duration_min"]
DurationsOf(tab, cid) ==
    LET Mine(r) == r.course_id = cid
        mine == SelectSeq(tab, Mine)
    IN  [i \in DOMAIN mine |-> mine[i].exam_duration_min]

\* Mutant: a duration equal to the timeslot's is too long.
FitsSlot_Strict(dur, slot_len) == dur < slot_len

\* dur <= int(timeslot_len.loc[period])
FitsSlot(dur, slot_len) == dur <= slot_len

\* Lines 18-30: the row of one course.
DurationRow(slots, cid, period, dur) ==
    LET len == TimeslotLen(slots)
    IN  IF period \notin DOMAIN len
        THEN [course_id |-> cid, timeslot_id |-> period, exam_ok |-> FALSE,
              duration_min |-> dur,
              note |-> "Invalid period " \o ToString(period)
                       \o " (not in timeslot list)"]
        ELSE [course_id |-> cid, timeslot_id |-> period,
              exam_ok |-> FitsSlot(dur, len[period]),
              duration_min |-> dur,
              note |-> IF FitsSlot(dur, len[period]) THEN "OK" ELSE "Too long"]

(***************************************************************************)
(* room_allocator.py                                                       *)
(***************************************************************************)
\* The arrangements of 1..n.
Perms(n) == {f \in [1..n -> 1..n] : \A i, j \in 1..n : i # j => f[i] # f[j]}

\* classrooms.sample(frac=1, random_state=42) followed by
\* sort_values("capacity"): the rows by non-decreasing capacity.  The default
\* sort is not stable, and the shuffle depends on the frame only through its
\* length: rows of equal capacity come in an order the code does not fix.
RoomsSortedChoices(rooms) ==
    {[i \in DOMAIN rooms |-> rooms[f[i]]] : f \in
        {g \in Perms(Len(rooms)) :
            \A i, j \in DOMAIN rooms :
                i < j => rooms[g[i]].capacity <= rooms[g[j]].capacity}}

\* set(timeslots["timeslot_id"].astype(int))
ValidPeriods(slots) == {slots[i].timeslot_id : i \in DOMAIN slots}

\* course_enrollment.get(cid, 0)
SizeOf(sizes, cid) == IF cid \in DOMAIN sizes THEN sizes[cid] ELSE 0

\* The keys of df_courses.groupby("timeslot_id"), ascending.
RECURSIVE Ascending(_)
Ascending(S) ==
    IF S = {} THEN << >>
    ELSE LET least == CHOOSE x \in S : \A y \in S : x <= y
         IN  <<least>> \o Ascending(S \ {least})

\* group.sort_values("size", ascending=False): the courses of period t by
\* non-increasing size, courses of equal size in an order the code does not
\* fix.
GroupChoices(periods, sizes, t) ==
    LET members == {c \in DOMAIN periods : periods[c] = t}
        n == Cardinality(members)
    IN  {sq \in [1..n -> members] :
            /\ \A i, j \in 1..n : i # j => sq[i] # sq[j]
            /\ \A i, j \in 1..n :
                 i < j => SizeOf(sizes, sq[i]) >= SizeOf(sizes, sq[j])}

\* Lines 64-75: the positions in rooms_sorted of the rooms not used in the
\* period and large enough; the loop takes the first.
FittingPositions(sorted, used, size) ==
    {i \in DOMAIN sorted :
        sorted[i].classroom_id \notin used /\ sorted[i].capacity >= size}

\* Line 80: free_rooms, as positions in rooms_sorted.
FreePositions(sorted, used) ==
    {i \in DOMAIN sorted : sorted[i].classroom_id \notin used}

\* Mutant: the fallback takes the first room of rooms_sorted, used or not.
PickRoom_FallbackIgnoresUsed(sorted, used, size) ==
    IF FittingPositions(sorted, used, size) # {}
    THEN sorted[MinOf(FittingPositions(sorted, used, size))].classroom_id
    ELSE IF sorted # << >> THEN sorted[Len(sorted)].classroom_id
    ELSE -1

\* Mutant: the best-fit loop takes the last room that fits, not the first.
PickRoom_LargestFitting(sorted, used, size) ==
    IF FittingPositions(sorted, used, size) # {}
    THEN sorted[MaxOf(FittingPositions(sorted, used, size))].classroom_id
    ELSE IF FreePositions(sorted, used) # {}
    THEN sorted[MaxOf(FreePositions(sorted, used))].classroom_id
    ELSE -1

\* Mutant: no fallback, a course no free room holds gets -1.
PickRoom_NoFallback(sorted, used, size) ==
    IF FittingPositions(sorted, used, size) # {}
    THEN sorted[MinOf(FittingPositions(sorted, used, size))].classroom_id
    ELSE -1

\* Mutant: the fallback takes the first free room, the smallest.
PickRoom_FallbackSmallest(sorted, used, size) ==
    IF FittingPositions(sorted, used, size) # {}
    THEN sorted[MinOf(FittingPositions(sorted, used, size))].classroom_id
    ELSE IF FreePositions(sorted, used) # {}
    THEN sorted[MinOf(FreePositions(sorted, used))].classroom_id
    ELSE -1

\* Lines 61-87: the room id given to a course of the given size, -1 if no
\* room of the period is free.
PickRoom(sorted, used, size) ==
    IF FittingPositions(sorted, used, size) # {}
    THEN sorted[MinOf(FittingPositions(sorted, used, size))].classroom_id
    ELSE IF FreePositions(sorted, used) # {}
    THEN sorted[MaxOf(FreePositions(sorted, used))].classroom_id
    ELSE -1

(***************************************************************************)
(* scheduler.py                                                            *)
(***************************************************************************)
\* color.get(u): << >> is None.
ColorGet(color, u) == IF u \in DOMAIN color THEN <<color[u]>> ELSE << >>

CountConflicts(G, color) ==
    Cardinality({e \in Edges(G) : ColorGet(color, e[1]) = ColorGet(color, e[2])})

ScheduleResult(colors, num_periods, conflicts, algorithm) ==
    [colors |-> colors, num_periods |-> num_periods, conflicts |-> conflicts,
     algorithm |-> algorithm, raised |-> "none"]

\* A call that ended in an exception returns no ScheduleResult.
Raised(algorithm, exc) ==
    [colors |-> << >>, num_periods |-> -1, conflicts |-> -1,
     algorithm |-> algorithm, raised |-> exc]

\* Mutant: the period count is the number of distinct periods in use.
MaxPeriodOrZero_DistinctCount(color) ==
    Cardinality({color[n] : n \in DOMAIN color})

\* max(color.values()) if color else 0
MaxPeriodOrZero(color) ==
    IF DOMAIN color = {} THEN 0 ELSE MaxOf({color[n] : n \in DOMAIN color})

\* Mutant: the periods of all colored courses, neighbours or not.
NeighborColors_AllColored(G, color, v) == {color[u] : u \in DOMAIN color}

\* {color.get(nei) for nei in G.neighbors(node) if nei in color}
NeighborColors(G, color, v) ==
    {color[u] : u \in Neighbors(G, v) \cap DOMAIN color}

\* Mutant: "if" in place of "while".
SmallestFree_IfNotWhile(used) == IF 1 \in used THEN 2 ELSE 1

\* c = 1; while c in neighbor_colors: c += 1
SmallestFree(used) ==
    CHOOSE c \in 1..(Cardinality(used) + 1) :
        c \notin used /\ \A d \in 1..(c - 1) : d \in used

\* sorted(G.nodes(), key=degree, reverse=True): stable, so courses of equal
\* degree keep their insertion order.
RECURSIVE SortByDegreeDesc(_, _)
SortByDegreeDesc(G, rest) ==
    IF rest = {} THEN << >>
    ELSE LET top  == MaxOf({Degree(G, n) : n \in rest})
             cand == {n \in rest : Degree(G, n) = top}
             first == CHOOSE n \in cand :
                         \A m \in cand : IndexOf(G.nodes, n) <= IndexOf(G.nodes, m)
         IN  <<first>> \o SortByDegreeDesc(G, rest \ {first})

\* Mutant: the courses are visited in insertion order, unsorted.
GreedyOrder_Unsorted(G) == G.nodes

GreedyOrder(G) == SortByDegreeDesc(G, Range(G.nodes))

GreedyAssign(G, color, node) ==
    color @@ (node :> SmallestFree(NeighborColors(G, color, node)))

\* saturation(v) of dsatur_coloring
Saturation(G, color, v) == Cardinality(NeighborColors(G, color, v))

\* The key of max(uncolored, key=...): compared lexicographically.
KeyLess(G, color, x, y) ==
    \/ Saturation(G, color, x) < Saturation(G, color, y)
    \/ /\ Saturation(G, color, x) = Saturation(G, color, y)
       /\ Degree(G, x) < Degree(G, y)

\* max() over a set returns the first maximal element in the set's iteration
\* order, which the code does not fix: any element with a maximal key.
DsaturCandidates(G, color, uncolored) ==
    {v \in uncolored : \A x \in uncolored : ~KeyLess(G, color, v, x)}

\* Mutant: the picked course gets period 1 whatever its neighbors have.
DsaturAssign_FirstPeriod(G, color, v) == color @@ (v :> 1)

DsaturAssign(G, color, v) ==
    color @@ (v :> SmallestFree(NeighborColors(G, color, v)))

\* greedy_coloring(G).colors, the for loop run to its end.
RECURSIVE GreedyLoop(_, _, _, _)
GreedyLoop(G, ord, i, color) ==
    IF i > Len(ord) THEN color
    ELSE GreedyLoop(G, ord, i + 1, GreedyAssign(G, color, ord[i]))

GreedyColors(G) == GreedyLoop(G, GreedyOrder(G), 1, << >>)

\* simulated_annealing_coloring, lines 61-63: the seed assignment.
SASeed(G, initial) == IF initial = << >> THEN GreedyColors(G) ELSE initial[1]

\* Mutant: a proposal that leaves the conflict count as it is needs luck.
SAKeep_StrictlyBetter(dE, accept) == dE < 0 \/ accept

\* lines 84-87: keep the proposal or put old_c back.  accept is the outcome
\* of random.random() < math.exp(-dE / max(T, 1e-8)).
SAKeep(dE, accept) == dE <= 0 \/ accept

\* Mutant: a rejected proposal is not put back.
SAAfterProposal_NoRevert(current, cand, dE, accept) == cand

SAAfterProposal(current, cand, dE, accept) ==
    IF SAKeep(dE, accept) THEN cand ELSE current

SAConfAfterProposal(cur_conf, new_conf, dE, accept) ==
    IF SAKeep(dE, accept) THEN new_conf ELSE cur_conf

(***************************************************************************)
(* State.                                                                  *)
(***************************************************************************)
VARIABLES
    enrollments, \* the enrollments frame: rows of student_id, course_id
    courses_df, \* the optional roster: the course_id column of courses_df
    G,          \* the conflict graph
    todo,       \* the calls the caller still makes, next first
    pc,         \* "idle" or the algorithm that is running
    results,    \* the results returned so far, oldest first
    order,      \* greedy_coloring: order
    gi,         \* greedy_coloring: position of the for loop in order
    color,      \* greedy_coloring / dsatur_coloring: color
    uncolored,  \* dsatur_coloring: uncolored
    sat_deg,    \* dsatur_coloring: sat_deg
    sa_args,    \* simulated_annealing_coloring: initial, max_iters, max_colors
    current,    \* simulated_annealing_coloring: current
    max_colors, \* simulated_annealing_coloring: max_colors after line 65
    cur_conf,   \* simulated_annealing_coloring: cur_conf
    it,         \* simulated_annealing_coloring: iterations of the for loop begun
    T_decays,   \* simulated_annealing_coloring: T = T0 * alpha^T_decays
    drawn,      \* simulated_annealing_coloring: the random draws of the iteration
    stu_lines,  \* the lines of the .stu file
    G_stu,      \* the graph build_conflict_graph_from_stu_file returns
    timeslots,  \* the timeslots frame: rows of timeslot_id, duration_min
    courses,    \* the courses frame: rows of course_id, exam_duration_min
    val_rows,   \* validate_durations: rows
    val_left,   \* validate_durations: the items of course_period still to visit
    classrooms, \* the classrooms frame: rows of classroom_id, capacity
    course_period,     \* allocate_rooms: course_period
    course_enrollment, \* allocate_rooms: course_enrollment
    rooms_sorted,      \* allocate_rooms: rooms_sorted
    rooms_used,        \* allocate_rooms: rooms_used
    assignments,       \* allocate_rooms: assignments
    groups_left,       \* allocate_rooms: the timeslot ids groupby still yields
    tid,               \* allocate_rooms: tid of the group being processed
    group              \* allocate_rooms: the rows of the group still to place

buildVars == <<enrollments, courses_df, stu_lines, G_stu>>
callVars == <<todo, pc, results>>
colVars == <<order, gi, color, uncolored, sat_deg>>
saVars == <<sa_args, current, max_colors, cur_conf, it, T_decays, drawn>>
runVars == <<timeslots, courses, val_rows, val_left>>
roomVars == <<classrooms, course_period, course_enrollment, rooms_sorted,
              rooms_used, assignments, groups_left, tid, group>>
vars == <<enrollments, courses_df, stu_lines, G_stu, G, todo, pc, results, order, gi, color, uncolored, sat_deg,
          sa_args, current, max_colors, cur_conf, it, T_decays, drawn, timeslots,
          courses, val_rows, val_left,
          classrooms, course_period, course_enrollment, rooms_sorted,
          rooms_used, assignments, groups_left, tid, group>>

ColIdle == /\ order = << >> /\ gi = 1 /\ color = << >>
           /\ uncolored = {} /\ sat_deg = << >>

NoSAArgs == [initial |-> << >>, max_iters |-> 0, max_colors |-> << >>]

SALocalsIdle == /\ current = << >> /\ max_colors = 0 /\ cur_conf = 0
                /\ it = 0 /\ T_decays = 0 /\ drawn = << >>

SAIdle == sa_args = NoSAArgs /\ SALocalsIdle

RoomLocalsIdle == /\ rooms_sorted = << >> /\ rooms_used = << >>
                  /\ assignments = << >> /\ groups_left = << >>
                  /\ tid = 0 /\ group = << >>

RoomsIdle == /\ classrooms = << >> /\ course_period = << >>
             /\ course_enrollment = << >> /\ RoomLocalsIdle

\* Every graph of at most MaxNodes courses, up to the names of the courses.
Pairs(nodes) ==
    {p \in Range(nodes) \X Range(nodes) :
        IndexOf(nodes, p[1]) < IndexOf(nodes, p[2])}

SymClosure(ps) == ps \cup {<<p[2], p[1]>> : p \in ps}

Graphs(maxn) ==
    UNION {{[nodes |-> SubSeq(CourseIdList, 1, n), adj |-> SymClosure(ps)] :
              ps \in SUBSET Pairs(SubSeq(CourseIdList, 1, n))} : n \in 0..maxn}

(***************************************************************************)
(* greedy_coloring                                                         *)
(***************************************************************************)
GreedyStart ==
    /\ pc = "idle"
    /\ todo # << >>
    /\ Head(todo) = "Greedy"
    /\ todo' = Tail(todo)
    /\ pc' = "greedy"
    /\ order' = GreedyOrder(G)
    /\ gi' = 1
    /\ color' = << >>
    /\ UNCHANGED <<buildVars, runVars, roomVars, G, results, uncolored, sat_deg, saVars>>

GreedyStep ==
    /\ pc = "greedy"
    /\ gi <= Len(order)
    /\ color' = GreedyAssign(G, color, order[gi])
    /\ gi' = gi + 1
    /\ UNCHANGED <<buildVars, runVars, roomVars, G, todo, pc, results, order, uncolored, sat_deg, saVars>>

GreedyReturn ==
    /\ pc = "greedy"
    /\ gi > Len(order)
    /\ results' = Append(results,
           ScheduleResult(color, MaxPeriodOrZero(color),
                          CountConflicts(G, color), "Greedy"))
    /\ pc' = "idle"
    /\ order' = << >> /\ gi' = 1 /\ color' = << >>
    /\ UNCHANGED <<buildVars, runVars, roomVars, G, todo, uncolored, sat_deg, saVars>>

(***************************************************************************)
(* dsatur_coloring                                                         *)
(***************************************************************************)
DsaturStart ==
    /\ pc = "idle"
    /\ todo # << >>
    /\ Head(todo) = "DSATUR"
    /\ todo' = Tail(todo)
    /\ pc' = "dsatur"
    /\ color' = << >>
    /\ sat_deg' = [v \in Range(G.nodes) |-> 0]
    /\ uncolored' = Range(G.nodes)
    /\ UNCHANGED <<buildVars, runVars, roomVars, G, results, order, gi, saVars>>

\* Mutant: the picked course stays in uncolored.
DsaturRemove_Keep(unc, v) == unc

\* uncolored.remove(node), line 48.
DsaturRemove(unc, v) == unc \ {v}

DsaturStep ==
    /\ pc = "dsatur"
    /\ uncolored # {}
    /\ \E v \in DsaturCandidates(G, color, uncolored) :
         LET c2 == DsaturAssign(G, color, v)
         IN  /\ color' = c2
             /\ uncolored' = DsaturRemove(uncolored, v)
             /\ sat_deg' = [u \in DOMAIN sat_deg |->
                              IF u \in Neighbors(G, v)
                              THEN Saturation(G, c2, u) ELSE sat_deg[u]]
    /\ UNCHANGED <<buildVars, runVars, roomVars, G, todo, pc, results, order, gi, saVars>>

DsaturReturn ==
    /\ pc = "dsatur"
    /\ uncolored = {}
    /\ results' = Append(results,
           ScheduleResult(color, MaxPeriodOrZero(color),
                          CountConflicts(G, color), "DSATUR"))
    /\ pc' = "idle"
    /\ color' = << >> /\ sat_deg' = << >>
    /\ UNCHANGED <<buildVars, runVars, roomVars, G, todo, order, gi, uncolored, saVars>>

(***************************************************************************)
(* The coloring algorithms on every small graph.                           *)
(***************************************************************************)
\* Sequences of at most n calls of the algorithms in algs.
CallSeqs(algs, n) == UNION {[1..k -> algs] : k \in 1..n}

NoStuFile == stu_lines = << >> /\ G_stu = EmptyGraph

ValIdle == val_rows = << >> /\ val_left = << >>

NoValidation == courses = << >> /\ ValIdle

NoTables == /\ enrollments = << >> /\ courses_df = << >> /\ timeslots = << >>
            /\ NoStuFile /\ NoValidation

InitColor ==
    /\ RoomsIdle
    /\ NoTables
    /\ G \in Graphs(MaxNodes)
    /\ todo \in CallSeqs({"Greedy", "DSATUR"}, MaxCalls)
    /\ pc = "idle"
    /\ results = << >>
    /\ ColIdle
    /\ SAIdle

NextColor ==
    \/ GreedyStart
    \/ GreedyStep
    \/ GreedyReturn
    \/ DsaturStart
    \/ DsaturStep
    \/ DsaturReturn

SpecColor == InitColor /\ [][NextColor]_vars

(***************************************************************************)
(* simulated_annealing_coloring.  The module-level generator is seeded     *)
(* once, when scheduler.py is imported (line 9), and never again: every    *)
(* draw of every call reads the next element of that one stream, so a draw *)
(* is any value of its range.                                              *)
(***************************************************************************)
\* Mutant: current is the caller's dict itself, not a copy of it.
InitialAfterWrite_NoCopy(args, cur) ==
    IF args.initial = << >> THEN args ELSE [args EXCEPT !.initial = <<cur>>]

\* current = initial.copy(): what the caller's initial holds after the
\* working assignment has become cur.
InitialAfterWrite(args, cur) == args

\* Mutant: proposals may exceed the ceiling by one.
Proposals_OneMore(ceiling) == 1..(ceiling + 1)

\* random.randint(1, max_colors)
Proposals(ceiling) == 1..ceiling

\* Lines 60-73 for the arguments args.
SAEnter(args) ==
    LET seed == SASeed(G, args.initial)
    IN  IF args.max_colors = << >> /\ DOMAIN seed = {}
        THEN \* max() of an empty sequence
             /\ results' = Append(results,
                                  Raised("SimulatedAnnealing", "ValueError"))
             /\ UNCHANGED <<pc, current, max_colors, cur_conf, it, T_decays,
                            drawn>>
        ELSE /\ current' = seed
             /\ max_colors' = IF args.max_colors = << >>
                              THEN MaxOf({seed[n] : n \in DOMAIN seed})
                              ELSE args.max_colors[1]
             /\ cur_conf' = CountConflicts(G, seed)
             /\ T_decays' = 0
             /\ drawn' = << >>
             /\ it' = 0
             /\ pc' = IF args.max_iters = 0 THEN "sa_end" ELSE "sa_loop"
             /\ UNCHANGED results

SAStart ==
    /\ pc = "idle"
    /\ todo # << >>
    /\ Head(todo) = "SimulatedAnnealing"
    /\ todo' = Tail(todo)
    /\ SAEnter(sa_args)
    /\ UNCHANGED <<buildVars, runVars, roomVars, G, sa_args, colVars>>

\* One iteration of the for loop, lines 74-90.
SAIter ==
    /\ pc = "sa_loop"
    /\ IF G.nodes = << >>
       THEN \* random.choice of an empty list
            /\ results' = Append(results,
                                 Raised("SimulatedAnnealing", "IndexError"))
            /\ pc' = "idle"
            /\ current' = << >> /\ max_colors' = 0 /\ cur_conf' = 0
            /\ it' = 0 /\ T_decays' = 0 /\ drawn' = << >>
       ELSE \E v \in Range(G.nodes), new_c \in Proposals(max_colors),
               accept \in BOOLEAN :
              LET old_c    == current[v]
                  cand     == [current EXCEPT ![v] = new_c]
                  new_conf == CountConflicts(G, cand)
                  dE       == new_conf - cur_conf
                  conf2    == SAConfAfterProposal(cur_conf, new_conf, dE, accept)
                  last     == it + 1 = sa_args.max_iters
              IN  /\ it' = it + 1
                  /\ drawn' = [v |-> v, new_c |-> new_c,
                               u_accepts |-> accept /\ new_c # old_c /\ dE > 0]
                  /\ IF new_c = old_c
                     THEN \* continue
                          /\ pc' = IF last THEN "sa_end" ELSE "sa_loop"
                          /\ UNCHANGED <<current, cur_conf, T_decays>>
                     ELSE /\ current' = SAAfterProposal(current, cand, dE, accept)
                          /\ cur_conf' = conf2
                          /\ T_decays' = T_decays + 1
                          /\ pc' = IF conf2 = 0 \/ last THEN "sa_end" ELSE "sa_loop"
                  /\ UNCHANGED <<results, max_colors>>
    /\ sa_args' = IF G.nodes = << >> THEN sa_args
                  ELSE InitialAfterWrite(sa_args, current')
    /\ UNCHANGED <<buildVars, runVars, roomVars, G, todo, colVars>>

\* Lines 92-93.
SAReturn ==
    /\ pc = "sa_end"
    /\ results' = Append(results,
           ScheduleResult(current, MaxPeriodOrZero(current), cur_conf,
                          "SimulatedAnnealing"))
    /\ pc' = "idle"
    /\ current' = << >> /\ max_colors' = 0 /\ cur_conf' = 0
    /\ it' = 0 /\ T_decays' = 0 /\ drawn' = << >>
    /\ UNCHANGED <<buildVars, runVars, roomVars, G, todo, sa_args, colVars>>

\* The courses of the graphs simulated annealing is run on.
SACourses == <<"A", "B", "C">>

SAGraphs ==
    UNION {{[nodes |-> SubSeq(SACourses, 1, n), adj |-> SymClosure(ps)] :
              ps \in SUBSET Pairs(SubSeq(SACourses, 1, n))} :
           n \in 0..Len(SACourses)}

\* Total seed assignments over the courses of G0.
Seeds(G0) == [Range(G0.nodes) -> 1..MaxPeriods]

SAArgs(G0) ==
    [initial : {<< >>} \cup {<<f>> : f \in Seeds(G0)},
     max_iters : 1..MaxIters,
     max_colors : {<< >>} \cup {<<k>> : k \in 1..MaxPeriods}]

InitSA ==
    /\ RoomsIdle
    /\ NoTables
    /\ G \in SAGraphs
    /\ sa_args \in SAArgs(G)
    /\ todo = <<"SimulatedAnnealing">>
    /\ pc = "idle"
    /\ results = << >>
    /\ ColIdle
    /\ SALocalsIdle

NextSA ==
    \/ SAStart
    \/ SAIter
    \/ SAReturn

SpecSA == InitSA /\ [][NextSA]_vars

\* The same call made twice, one after the other, in the same process.
InitSATwice ==
    /\ RoomsIdle
    /\ NoTables
    /\ G \in SAGraphs
    /\ sa_args \in SAArgs(G)
    /\ todo = <<"SimulatedAnnealing", "SimulatedAnnealing">>
    /\ pc = "idle"
    /\ results = << >>
    /\ ColIdle
    /\ SALocalsIdle

SpecSATwice == InitSATwice /\ [][NextSA]_vars

(***************************************************************************)
(* dsatur_coloring on graphs in which a course with many colored neighbors *)
(* competes with a course with more uncolored ones.                        *)
(***************************************************************************)
DsaturCourses == <<"A", "B", "C", "D", "E", "F", "G", "H">>

\* The graph on the first n courses with the given conflicts.
GraphOf(n, conflicts) ==
    [nodes |-> SubSeq(DsaturCourses, 1, n), adj |-> SymClosure(conflicts)]

SixCourseConflicts ==
    {<<"A", "F">>, <<"B", "D">>, <<"B", "E">>, <<"C", "D">>, <<"C", "E">>,
     <<"E", "F">>}

EightCourseConflicts ==
    {<<"A", "C">>, <<"A", "F">>, <<"B", "F">>, <<"B", "G">>, <<"B", "H">>,
     <<"C", "F">>, <<"C", "G">>, <<"D", "F">>, <<"D", "G">>, <<"D", "H">>,
     <<"E", "F">>, <<"E", "G">>, <<"E", "H">>, <<"F", "H">>}

\* Six courses with any of the six conflicts, and the eight-course graph.
DsaturGraphs ==
    {GraphOf(6, cs) : cs \in SUBSET SixCourseConflicts}
    \cup {GraphOf(8, EightCourseConflicts)}

InitDsatur ==
    /\ RoomsIdle
    /\ NoTables
    /\ G \in DsaturGraphs
    /\ todo = <<"DSATUR">>
    /\ pc = "idle"
    /\ results = << >>
    /\ ColIdle
    /\ SAIdle

NextDsatur ==
    \/ DsaturStart
    \/ DsaturStep
    \/ DsaturReturn

SpecDsatur == InitDsatur /\ [][NextDsatur]_vars

(***************************************************************************)
(* The three algorithms, one after the other, on the same graph.           *)
(***************************************************************************)
InitAlgos ==
    /\ RoomsIdle
    /\ NoTables
    /\ G \in SAGraphs
    /\ sa_args \in SAArgs(G)
    /\ todo = <<"Greedy", "DSATUR", "SimulatedAnnealing">>
    /\ pc = "idle"
    /\ results = << >>
    /\ ColIdle
    /\ SALocalsIdle

NextAlgos ==
    \/ GreedyStart
    \/ GreedyStep
    \/ GreedyReturn
    \/ DsaturStart
    \/ DsaturStep
    \/ DsaturReturn
    \/ SAStart
    \/ SAIter
    \/ SAReturn

SpecAlgos == InitAlgos /\ [][NextAlgos]_vars

(***************************************************************************)
(* build_conflict_graph_from_enrollments on every small enrollments frame. *)
(***************************************************************************)
RawStudentIds == {"s", " s", "t "}

RawCourseIds == {"a", "A ", " b", "c"}

Rosters == {<< >>, << <<"d">> >>, << <<" a", "D", "d ">> >>}

EnrollmentFrames ==
    UNION {[1..k -> [student_id : RawStudentIds, course_id : RawCourseIds]] :
             k \in 0..MaxRows}

BuildFromEnrollments ==
    /\ pc = "input"
    /\ enrollments' = NormalizeRows(enrollments)
    /\ G' = BuildGraph(NormalizeRows(enrollments), courses_df)
    /\ pc' = "idle"
    /\ UNCHANGED <<courses_df, stu_lines, G_stu, runVars, roomVars, todo,
                   results, colVars, saVars>>

InitBuild ==
    /\ RoomsIdle
    /\ NoValidation
    /\ NoStuFile
    /\ enrollments \in EnrollmentFrames
    /\ courses_df \in Rosters
    /\ timeslots = << >>
    /\ G = EmptyGraph
    /\ todo = << >>
    /\ pc = "input"
    /\ results = << >>
    /\ ColIdle
    /\ SAIdle

NextBuild == BuildFromEnrollments

SpecBuild == InitBuild /\ [][NextBuild]_vars

(***************************************************************************)
(* Both builders on the same data: the .stu file has one line per student  *)
(* of the enrollments frame, listing the student's courses.                *)
(***************************************************************************)
\* The strings joined by single blanks.
RECURSIVE JoinBlank(_)
JoinBlank(strs) ==
    IF strs = << >> THEN ""
    ELSE IF Len(strs) = 1 THEN strs[1]
    ELSE strs[1] \o " " \o JoinBlank(Tail(strs))

\* The .stu file of an enrollments frame: students in order of first
\* appearance, each student's courses as written in the frame.
StuFileOf(rows) ==
    LET sids == Unique([i \in DOMAIN rows |-> NormStudent(rows[i].student_id)])
        Line(sid) ==
            LET Mine(r) == NormStudent(r.student_id) = sid
                mine == SelectSeq(rows, Mine)
            IN  JoinBlank([i \in DOMAIN mine |-> mine[i].course_id])
    IN  [k \in DOMAIN sids |-> Line(sids[k])]

BuildFromStuFile ==
    /\ pc = "input_stu"
    /\ G_stu' = BuildGraphFromStu(stu_lines, courses_df)
    /\ pc' = "input"
    /\ UNCHANGED <<enrollments, courses_df, stu_lines, runVars, roomVars, G,
                   todo, results, colVars, saVars>>

InitStu ==
    /\ RoomsIdle
    /\ NoValidation
    /\ enrollments \in EnrollmentFrames
    /\ courses_df \in Rosters
    /\ stu_lines = StuFileOf(enrollments)
    /\ G_stu = EmptyGraph
    /\ timeslots = << >>
    /\ G = EmptyGraph
    /\ todo = << >>
    /\ pc = "input_stu"
    /\ results = << >>
    /\ ColIdle
    /\ SAIdle

NextStu ==
    \/ BuildFromStuFile
    \/ BuildFromEnrollments

SpecStu == InitStu /\ [][NextStu]_vars

(***************************************************************************)
(* pages/2_Run_Scheduler.py: the Run Scheduler button.                     *)
(***************************************************************************)
\* The calls of lines 127-156 for each choice of the select box; the
\* annealing call takes the DSATUR result returned just before it as seed.
RunCalls(algo) ==
    CASE algo = "Greedy" -> <<"Greedy">>
      [] algo = "DSATUR" -> <<"DSATUR">>
      [] algo = "Simulated Annealing" ->
             <<"DSATUR", "SimulatedAnnealing(DSATUR)">>
      [] algo = "Compare All" ->
             <<"Greedy", "DSATUR", "SimulatedAnnealing(DSATUR)">>

\* Lines 131-139 and 147-156.
RunSAStart ==
    /\ pc = "idle"
    /\ todo # << >>
    /\ Head(todo) = "SimulatedAnnealing(DSATUR)"
    /\ todo' = Tail(todo)
    /\ LET args == [initial |-> <<results[Len(results)].colors>>,
                    max_iters |-> sa_args.max_iters,
                    max_colors |-> << >>]
       IN  /\ sa_args' = args
           /\ SAEnter(args)
    /\ UNCHANGED <<buildVars, runVars, roomVars, G, colVars>>

\* int(times["timeslot_id"].max())
MaxSlotId(slots) == MaxOf({slots[i].timeslot_id : i \in DOMAIN slots})

\* int(result.colors[cid]) % max_slot + 1
RemapPeriod(period, max_slot) == (period % max_slot) + 1

\* Lines 160-162: result.colors is rewritten in place.
RunRemap ==
    /\ pc = "idle"
    /\ todo = << >>
    /\ results # << >>
    /\ results[Len(results)].raised = "none"
    /\ LET last == results[Len(results)]
           max_slot == MaxSlotId(timeslots)
       IN  results' = [results EXCEPT ![Len(results)].colors =
                          [c \in DOMAIN last.colors |->
                              RemapPeriod(last.colors[c], max_slot)]]
    /\ pc' = "mapped"
    /\ UNCHANGED <<buildVars, runVars, roomVars, G, todo, colVars, saVars>>

\* The frames as the page holds them after lines 60-70.
RunStudentIds == {"s", "t"}

RunCourseIds == {"A", "B", "C"}

\* Student ids only name the students: the first row is student "s".
RunEnrollmentFrames ==
    UNION {{e \in [1..k -> [student_id : RunStudentIds,
                            course_id : RunCourseIds]] :
              k > 0 => e[1].student_id = "s"} :
           k \in 0..MaxRows}

SlotDurations == {60}

\* Timeslot tables with ids 1..k.
TimeslotFrames ==
    UNION {[1..k -> [timeslot_id : 1..k, duration_min : SlotDurations]] :
             k \in 1..MaxSlots}

ContiguousFrames ==
    {t \in TimeslotFrames : \A i \in DOMAIN t : t[i].timeslot_id = i}

RunAlgos == {"Greedy", "DSATUR", "Simulated Annealing", "Compare All"}

InitRun ==
    /\ RoomsIdle
    /\ NoValidation
    /\ NoStuFile
    /\ enrollments \in RunEnrollmentFrames
    /\ courses_df = << >>
    /\ timeslots \in ContiguousFrames
    /\ G = EmptyGraph
    /\ \E algo \in RunAlgos : todo = RunCalls(algo)
    /\ pc = "input"
    /\ results = << >>
    /\ ColIdle
    /\ sa_args = [initial |-> << >>, max_iters |-> MaxIters,
                  max_colors |-> << >>]
    /\ SALocalsIdle

NextRun ==
    \/ BuildFromEnrollments
    \/ GreedyStart
    \/ GreedyStep
    \/ GreedyReturn
    \/ DsaturStart
    \/ DsaturStep
    \/ DsaturReturn
    \/ RunSAStart
    \/ SAIter
    \/ SAReturn
    \/ RunRemap

SpecRun == InitRun /\ [][NextRun]_vars

(***************************************************************************)
(* allocate_rooms, one placed course at a time.                            *)
(***************************************************************************)
\* Lines 27-48.
AllocStart ==
    /\ pc = "alloc_input"
    /\ rooms_sorted' \in RoomsSortedChoices(classrooms)
    /\ rooms_used' = [t \in ValidPeriods(timeslots) |-> {}]
    /\ assignments' = << >>
    /\ groups_left' = Ascending({course_period[c] : c \in DOMAIN course_period})
    /\ tid' = 0
    /\ group' = << >>
    /\ pc' = "alloc_groups"
    /\ UNCHANGED <<buildVars, runVars, classrooms, course_period,
                   course_enrollment, G, todo, results, colVars, saVars>>

\* Lines 51-56: the next group of the groupby.
AllocGroup ==
    /\ pc = "alloc_groups"
    /\ groups_left # << >>
    /\ groups_left' = Tail(groups_left)
    /\ IF Head(groups_left) \notin ValidPeriods(timeslots)
       THEN \* continue
            UNCHANGED <<tid, group, pc>>
       ELSE /\ tid' = Head(groups_left)
            /\ group' \in GroupChoices(course_period, course_enrollment,
                                       Head(groups_left))
            /\ pc' = "alloc_rows"
    /\ UNCHANGED <<buildVars, runVars, classrooms, course_period,
                   course_enrollment, rooms_sorted, rooms_used, assignments,
                   G, todo, results, colVars, saVars>>

\* Lines 58-87: one row of the group.
AllocPlace ==
    /\ pc = "alloc_rows"
    /\ group # << >>
    /\ LET cid  == Head(group)
           size == SizeOf(course_enrollment, cid)
           rid  == PickRoom(rooms_sorted, rooms_used[tid], size)
       IN  /\ assignments' = Append(assignments,
                 [course_id |-> cid, timeslot_id |-> tid, classroom_id |-> rid])
           /\ rooms_used' = IF rid = -1 THEN rooms_used
                            ELSE [rooms_used EXCEPT ![tid] = @ \cup {rid}]
    /\ group' = Tail(group)
    /\ pc' = IF Tail(group) = << >> THEN "alloc_groups" ELSE "alloc_rows"
    /\ UNCHANGED <<buildVars, runVars, classrooms, course_period,
                   course_enrollment, rooms_sorted, groups_left, tid,
                   G, todo, results, colVars, saVars>>

\* Line 89.
AllocReturn ==
    /\ pc = "alloc_groups"
    /\ groups_left = << >>
    /\ pc' = "alloc_done"
    /\ rooms_sorted' = << >> /\ rooms_used' = << >>
    /\ tid' = 0
    /\ UNCHANGED <<buildVars, runVars, classrooms, course_period,
                   course_enrollment, assignments, groups_left, group,
                   G, todo, results, colVars, saVars>>

RoomCourses == <<"A", "B", "C">>

ValCourses == <<"A", "B", "C">>

SlotLengths == {60, 120}

ExamDurations == {60, 90}

CourseSizes == {20, 60, 90}

RoomCapacities == {30, 50, 100}

\* Timeslot tables over any ids of 1..MaxSlots, the empty table included.
RoomTimeslotFrames ==
    {Ascending(S) : S \in SUBSET (1..MaxSlots)}

SlotRows(ids) ==
    [i \in DOMAIN ids |-> [timeslot_id |-> ids[i], duration_min |-> 60]]

\* Inventories of at most MaxRooms rooms; room ids name the rooms, so they
\* are given in order of capacity.
RoomFrames ==
    UNION {{r \in [1..k -> [classroom_id : 1..k, capacity : RoomCapacities]] :
              /\ \A i \in 1..k : r[i].classroom_id = i
              /\ \A i, j \in 1..k : i < j => r[i].capacity <= r[j].capacity} :
           k \in 0..MaxRooms}

\* Period and size of each course; course ids name the courses, so they are
\* given in order of (period, size).
CoursePlans ==
    UNION {{cp \in [{RoomCourses[i] : i \in 1..k} ->
                       [period : 1..MaxSlots, size : CourseSizes]] :
              \A i, j \in 1..k :
                 i < j =>
                   \/ cp[RoomCourses[i]].period < cp[RoomCourses[j]].period
                   \/ /\ cp[RoomCourses[i]].period = cp[RoomCourses[j]].period
                      /\ cp[RoomCourses[i]].size <= cp[RoomCourses[j]].size} :
           k \in 0..Len(RoomCourses)}

InitRooms ==
    /\ NoValidation
    /\ NoStuFile
    /\ enrollments = << >> /\ courses_df = << >>
    /\ G = EmptyGraph
    /\ todo = << >>
    /\ pc = "alloc_input"
    /\ results = << >>
    /\ ColIdle
    /\ SAIdle
    /\ \E ids \in RoomTimeslotFrames : timeslots = SlotRows(ids)
    /\ classrooms \in RoomFrames
    /\ \E cp \in CoursePlans :
         /\ course_period = [c \in DOMAIN cp |-> cp[c].period]
         /\ course_enrollment = [c \in DOMAIN cp |-> cp[c].size]
    /\ RoomLocalsIdle

NextRooms ==
    \/ AllocStart
    \/ AllocGroup
    \/ AllocPlace
    \/ AllocReturn

SpecRooms == InitRooms /\ [][NextRooms]_vars

(***************************************************************************)
(* validate_durations, one course at a time.                               *)
(***************************************************************************)
\* Lines 12-15; the items of course_period come in the order of the dict.
ValidateStart ==
    /\ pc = "val_input"
    /\ val_rows' = << >>
    /\ val_left' = SelectSeq(ValCourses, LAMBDA c : c \in DOMAIN course_period)
    /\ pc' = "val_loop"
    /\ UNCHANGED <<buildVars, timeslots, courses, roomVars, G, todo, results,
                   colVars, saVars>>

\* Lines 16-30: one item of course_period.
ValidateRow ==
    /\ pc = "val_loop"
    /\ val_left # << >>
    /\ LET cid == Head(val_left)
           durs == DurationsOf(courses, cid)
       IN  IF durs = << >>
           THEN \* .iloc[0] of an empty selection
                /\ pc' = "val_raised_IndexError"
                /\ val_rows' = << >>
                /\ val_left' = << >>
           ELSE /\ val_rows' = Append(val_rows,
                      DurationRow(timeslots, cid, course_period[cid], durs[1]))
                /\ val_left' = Tail(val_left)
                /\ pc' = "val_loop"
    /\ UNCHANGED <<buildVars, timeslots, courses, roomVars, G, todo, results,
                   colVars, saVars>>

\* Line 31.
ValidateReturn ==
    /\ pc = "val_loop"
    /\ val_left = << >>
    /\ pc' = "val_done"
    /\ UNCHANGED <<buildVars, runVars, roomVars, G, todo, results, colVars,
                   saVars>>

\* Timeslot tables over any ids of 1..MaxSlots, one row per id.
ValTimeslotFrames ==
    UNION {{[i \in DOMAIN ids |->
               [timeslot_id |-> ids[i], duration_min |-> d[ids[i]]]] :
              d \in [Range(ids) -> SlotLengths]} :
           ids \in RoomTimeslotFrames}

\* Course tables with at most one record per course.
CourseFrames ==
    UNION {{[i \in DOMAIN ids |->
               [course_id |-> ids[i], exam_duration_min |-> d[ids[i]]]] :
              d \in [Range(ids) -> ExamDurations]} :
           ids \in {SelectSeq(ValCourses, LAMBDA c : c \in S) :
                      S \in SUBSET Range(ValCourses)}}

InitVal ==
    /\ RoomLocalsIdle
    /\ classrooms = << >> /\ course_enrollment = << >>
    /\ enrollments = << >> /\ courses_df = << >>
    /\ NoStuFile
    /\ G = EmptyGraph
    /\ todo = << >>
    /\ pc = "val_input"
    /\ results = << >>
    /\ ColIdle
    /\ SAIdle
    /\ timeslots \in ValTimeslotFrames
    /\ courses \in CourseFrames
    /\ \E S \in SUBSET Range(ValCourses) : course_period \in [S -> 1..MaxSlots]
    /\ ValIdle

NextVal ==
    \/ ValidateStart
    \/ ValidateRow
    \/ ValidateReturn

SpecVal == InitVal /\ [][NextVal]_vars

(***************************************************************************)
(* Properties.                                                             *)
(***************************************************************************)
IsColoringResult(r) == r.algorithm \in {"Greedy", "DSATUR"}

IsSAResult(r) == r.algorithm = "SimulatedAnnealing"

MaxDegree(G0) ==
    IF G0.nodes = << >> THEN 0
    ELSE MaxOf({Degree(G0, n) : n \in Range(G0.nodes)})

Isolated(G0) == {n \in Range(G0.nodes) : Neighbors(G0, n) = {}}

\* C1: every result of greedy_coloring and of dsatur_coloring is a proper
\* coloring (the endpoints of every edge have different periods) and reports
\* conflict count 0, on every graph, the empty one and those with isolated
\* courses included.
C1_GreedyDsaturProper ==
    \A i \in DOMAIN results :
        IsColoringResult(results[i]) =>
            /\ results[i].raised = "none"
            /\ results[i].conflicts = 0
            /\ \A e \in Edges(G) :
                 /\ e[1] \in DOMAIN results[i].colors
                 /\ e[2] \in DOMAIN results[i].colors
                 /\ results[i].colors[e[1]] # results[i].colors[e[2]]

\* Both algorithms have returned on a graph with a triangle's worth of
\* conflicts somewhere and an isolated course.
C1_Witness ==
    /\ Len(results) = 2
    /\ results[1].algorithm = "Greedy"
    /\ results[2].algorithm = "DSATUR"
    /\ Cardinality(Edges(G)) >= 1
    /\ Isolated(G) # {}
    /\ results[2].num_periods >= 2

\* C7: the period count of every result of greedy_coloring and of
\* dsatur_coloring is at most the maximum degree of the graph plus one.
C7_PeriodsAtMostMaxDegreePlusOne ==
    \A i \in DOMAIN results :
        IsColoringResult(results[i]) =>
            results[i].num_periods <= MaxDegree(G) + 1

\* Both algorithms have returned and the bound is attained (a clique).
C7_Witness ==
    /\ Len(results) = 2
    /\ results[1].algorithm = "DSATUR"
    /\ results[2].algorithm = "Greedy"
    /\ MaxDegree(G) >= 2
    /\ results[1].num_periods = MaxDegree(G) + 1
    /\ results[2].num_periods = MaxDegree(G) + 1

\* C6: on the empty graph each of the three algorithms (simulated annealing
\* called with its defaults: no initial assignment, no max_colors) returns a
\* result with period count 0 and conflict count 0, and does not raise.
C6_EmptyGraphZero ==
    \A i \in DOMAIN results :
        (/\ G.nodes = << >>
         /\ \/ IsColoringResult(results[i])
            \/ /\ IsSAResult(results[i])
               /\ sa_args.initial = << >>
               /\ sa_args.max_colors = << >>)
        => /\ results[i].raised = "none"
           /\ results[i].num_periods = 0
           /\ results[i].conflicts = 0

\* C8: two calls of simulated_annealing_coloring with the same graph, initial
\* assignment and parameters, made one after the other in the same process,
\* return the same assignment and the same conflict count.
C8_SameCallSameResult ==
    \A i, j \in DOMAIN results :
        (IsSAResult(results[i]) /\ IsSAResult(results[j]))
        => /\ results[i].colors = results[j].colors
           /\ results[i].conflicts = results[j].conflicts

\* C9: between iterations, and in the returned result, the tracked conflict
\* count of simulated_annealing_coloring equals a recount over all edges of
\* the working assignment.
C9_TrackedConflictsAreRecount ==
    /\ pc \in {"sa_loop", "sa_end"} => cur_conf = CountConflicts(G, current)
    /\ \A i \in DOMAIN results :
         (IsSAResult(results[i]) /\ results[i].raised = "none")
         => results[i].conflicts = CountConflicts(G, results[i].colors)

\* The budget is used up after a proposal was applied or rejected, the
\* assignment differs from the seed and conflicts remain.
C9_Witness ==
    /\ pc = "sa_end"
    /\ it = sa_args.max_iters
    /\ T_decays >= 2
    /\ cur_conf > 0
    /\ current # SASeed(G, sa_args.initial)

\* C10: simulated_annealing_coloring draws no proposal while the current
\* conflict count is 0, at the start of the run included, and never begins
\* more than max_iters iterations.
C10_NoProposalAtZeroConflicts ==
    /\ [][(pc = "sa_loop" /\ it' = it + 1) => cur_conf # 0]_vars
    /\ [](pc \in {"sa_loop", "sa_end"} => it <= sa_args.max_iters)

\* Some student is enrolled, after normalization, in both a and b.
SharesStudent(rows, a, b) ==
    \E i, j \in DOMAIN rows :
        /\ NormStudent(rows[i].student_id) = NormStudent(rows[j].student_id)
        /\ NormCourse(rows[i].course_id) = a
        /\ NormCourse(rows[j].course_id) = b

\* C2: the graph built from the enrollments has an edge between two distinct
\* courses exactly when some student is enrolled in both (identifiers
\* normalized), has no self-loop, and its adjacency is symmetric.
C2_EdgeIffSharedStudent ==
    pc = "idle" =>
        /\ \A a, b \in Range(G.nodes) :
             a # b => (<<a, b>> \in G.adj <=> SharesStudent(enrollments, a, b))
        /\ \A e \in G.adj :
             /\ e[1] # e[2]
             /\ e[1] \in Range(G.nodes) /\ e[2] \in Range(G.nodes)
             /\ <<e[2], e[1]>> \in G.adj
        /\ \A i \in DOMAIN enrollments :
             NormCourse(enrollments[i].course_id) \in Range(G.nodes)

\* A student enrolled twice in one course and once in another: one edge,
\* no self-loop; a course of the roster stays isolated.
C2_Witness ==
    /\ pc = "idle"
    /\ Len(enrollments) = 3
    /\ enrollments[1] = enrollments[2]
    /\ enrollments[3].student_id = enrollments[1].student_id
    /\ enrollments[3].course_id # enrollments[1].course_id
    /\ Cardinality(Edges(G)) = 1
    /\ Isolated(G) # {}

\* C3: the period map the run hands on after the timeslot remapping gives
\* different periods to any two courses that share an enrolled student.
C3_RemappedPeriodsSeparateConflicts ==
    pc = "mapped" =>
        LET colors == results[Len(results)].colors
        IN  \A a, b \in DOMAIN colors :
                (a # b /\ SharesStudent(enrollments, a, b))
                => colors[a] # colors[b]

\* C4: in the rows allocate_rooms emits, no room id other than -1 occurs in
\* the rows of two courses of the same period.
C4_NoRoomTwiceInAPeriod ==
    \A i, j \in DOMAIN assignments :
        (/\ i # j
         /\ assignments[i].timeslot_id = assignments[j].timeslot_id
         /\ assignments[i].classroom_id # -1)
        => assignments[i].classroom_id # assignments[j].classroom_id

\* The call has returned; in one period a course got a room by the fall
\* back, another a room that fits, and a third the sentinel.
C4_Witness ==
    /\ pc = "alloc_done"
    /\ \E i, j, k \in DOMAIN assignments :
         /\ assignments[i].timeslot_id = assignments[j].timeslot_id
         /\ assignments[j].timeslot_id = assignments[k].timeslot_id
         /\ assignments[i].classroom_id = -1
         /\ assignments[j].classroom_id # -1
         /\ assignments[k].classroom_id # -1
         /\ j # k
         /\ \E r \in DOMAIN classrooms :
              /\ classrooms[r].classroom_id = assignments[j].classroom_id
              /\ classrooms[r].capacity <
                   course_enrollment[assignments[j].course_id]

\* C5: the returned table has exactly one row for every (course, period)
\* pair of course_period, whatever the period and the number of rooms.
C5_OneRowPerCourse ==
    pc = "alloc_done" =>
        /\ Len(assignments) = Cardinality(DOMAIN course_period)
        /\ \A c \in DOMAIN course_period :
             Cardinality({i \in DOMAIN assignments :
                            /\ assignments[i].course_id = c
                            /\ assignments[i].timeslot_id = course_period[c]}) = 1

\* C11: an iteration of simulated_annealing_coloring whose proposal equals
\* the course's current period leaves the assignment unchanged, still
\* multiplies the temperature by alpha and still counts toward max_iters:
\* after n iterations the temperature has been multiplied by alpha n times.
C11_EveryIterationDecays ==
    /\ [][(pc = "sa_loop" /\ it' = it + 1 /\ T_decays' = T_decays)
            => current' = current]_vars
    /\ [](pc \in {"sa_loop", "sa_end"} => T_decays = it)

\* The maximum period of the seed assignment of the call.
SeedMax == MaxOf({SASeed(G, sa_args.initial)[n] : n \in Range(G.nodes)})

\* The periods of every returned result of simulated annealing lie in
\* 1..ceiling, and so does its period count.
SAPeriodsWithin(ceiling) ==
    \A i \in DOMAIN results :
        (IsSAResult(results[i]) /\ results[i].raised = "none")
        => /\ \A c \in DOMAIN results[i].colors :
                results[i].colors[c] \in 1..ceiling
           /\ results[i].num_periods <= ceiling

\* C12 as stated: whatever the call, every period of the result of
\* simulated_annealing_coloring lies in [1, M], M the maximum period of the
\* seed assignment, and the period count is at most M.
C12_NoNewPeriod == G.nodes # << >> => SAPeriodsWithin(SeedMax)

\* C12 amended: every period of the result lies in [1, M] when max_colors is
\* omitted, and in [1, max(M, max_colors)] when it is given.
C12_NoPeriodAboveCeiling ==
    G.nodes # << >> =>
        SAPeriodsWithin(IF sa_args.max_colors = << >> THEN SeedMax
                        ELSE MaxOf({SeedMax, sa_args.max_colors[1]}))

\* A call without max_colors has applied a proposal and returned an
\* assignment other than its seed.
C12_Witness ==
    /\ results # << >>
    /\ IsSAResult(results[1])
    /\ results[1].raised = "none"
    /\ sa_args.max_colors = << >>
    /\ SeedMax >= 2
    /\ results[1].colors # SASeed(G, sa_args.initial)
    /\ results[1].num_periods = SeedMax

\* C13: every result of simulated_annealing_coloring comes with the
\* per-iteration conflict counts as a trajectory (the history the
\* convergence benchmark reads from the result), of length at most
\* max_iters.
C13_ResultExposesHistory ==
    \A i \in DOMAIN results :
        (IsSAResult(results[i]) /\ results[i].raised = "none")
        => /\ "history" \in DOMAIN results[i]
           /\ Len(results[i].history) <= sa_args.max_iters

\* Capacity of the room with the given id.
CapacityOf(rid) ==
    LET r == CHOOSE k \in DOMAIN classrooms : classrooms[k].classroom_id = rid
    IN  classrooms[r].capacity

\* The room ids given, in the period of row i, to the rows emitted before it.
UsedBefore(i) ==
    {assignments[k].classroom_id : k \in
        {k \in 1..(i - 1) :
            /\ assignments[k].timeslot_id = assignments[i].timeslot_id
            /\ assignments[k].classroom_id # -1}}

\* The room ids still unused in the period of row i when it was emitted.
FreeBefore(i) ==
    {classrooms[k].classroom_id : k \in DOMAIN classrooms} \ UsedBefore(i)

\* C14: each emitted row carries the smallest-capacity room unused in its
\* period that holds the course, if there is one; otherwise the
\* largest-capacity room unused in its period, if there is one; otherwise
\* -1.  No call raises.
C14_BestFitThenLargestThenSentinel ==
    \A i \in DOMAIN assignments :
        LET size    == SizeOf(course_enrollment, assignments[i].course_id)
            rid     == assignments[i].classroom_id
            free    == FreeBefore(i)
            fitting == {r \in free : CapacityOf(r) >= size}
        IN  IF fitting # {}
            THEN /\ rid \in fitting
                 /\ \A r \in fitting : CapacityOf(rid) <= CapacityOf(r)
            ELSE IF free # {}
            THEN /\ rid \in free
                 /\ \A r \in free : CapacityOf(rid) >= CapacityOf(r)
            ELSE rid = -1

\* The call has returned; in one period the largest course took the largest
\* room as a fallback although a smaller one was free, the next course took
\* a room that holds it, and the last course got -1.
C14_Witness ==
    /\ pc = "alloc_done"
    /\ \E i, j, k \in DOMAIN assignments :
         /\ assignments[i].timeslot_id = assignments[j].timeslot_id
         /\ assignments[j].timeslot_id = assignments[k].timeslot_id
         /\ i < j /\ j < k
         /\ assignments[i].classroom_id # -1
         /\ CapacityOf(assignments[i].classroom_id)
              < course_enrollment[assignments[i].course_id]
         /\ \E r \in FreeBefore(i) :
              CapacityOf(r) < CapacityOf(assignments[i].classroom_id)
         /\ assignments[j].classroom_id # -1
         /\ CapacityOf(assignments[j].classroom_id)
              >= course_enrollment[assignments[j].course_id]
         /\ assignments[k].classroom_id = -1

\* The row emitted for the course.
RowOf(cid) ==
    assignments[CHOOSE i \in DOMAIN assignments : assignments[i].course_id = cid]

\* One period with rooms of capacity 30, 50 and 100 and courses of size 90,
\* 60 and 20.
C15_Scenario ==
    /\ Len(classrooms) = 3
    /\ {classrooms[k].capacity : k \in DOMAIN classrooms} = {30, 50, 100}
    /\ Cardinality(DOMAIN course_period) = 3
    /\ {course_enrollment[c] : c \in DOMAIN course_period} = {20, 60, 90}
    /\ \A c, d \in DOMAIN course_period : course_period[c] = course_period[d]
    /\ \A c \in DOMAIN course_period :
         course_period[c] \in ValidPeriods(timeslots)

\* C15: with rooms of capacity 30, 50 and 100 and courses of size 90, 60 and
\* 20 in one period, allocate_rooms gives the course of size 90 the room of
\* capacity 100, the course of size 60 the room of capacity 50 and the course
\* of size 20 the room of capacity 30, and emits no row with -1.
C15_ThreeRoomsThreeCourses ==
    (pc = "alloc_done" /\ C15_Scenario) =>
        /\ Len(assignments) = 3
        /\ \A i \in DOMAIN assignments : assignments[i].classroom_id # -1
        /\ \A c \in DOMAIN course_period :
             CapacityOf(RowOf(c).classroom_id) =
                CASE course_enrollment[c] = 90 -> 100
                  [] course_enrollment[c] = 60 -> 50
                  [] course_enrollment[c] = 20 -> 30

\* The call has returned in the scenario, the courses placed in the order of
\* sizes 90, 60, 20.
C15_Witness ==
    /\ pc = "alloc_done"
    /\ C15_Scenario
    /\ Len(assignments) = 3
    /\ course_enrollment[assignments[1].course_id] = 90
    /\ course_enrollment[assignments[2].course_id] = 60
    /\ course_enrollment[assignments[3].course_id] = 20

\* C16: in every result of greedy_coloring, dsatur_coloring and
\* simulated_annealing_coloring the assignment is total over the nodes of
\* the graph, every period is an integer >= 1, and the period count is the
\* maximum assigned period (0 when there is no course).
C16_TotalPositiveCountIsMax ==
    \A i \in DOMAIN results :
        results[i].raised = "none" =>
            /\ DOMAIN results[i].colors = Range(G.nodes)
            /\ \A c \in DOMAIN results[i].colors :
                 results[i].colors[c] \in Nat \ {0}
            /\ \A c \in DOMAIN results[i].colors :
                 results[i].colors[c] <= results[i].num_periods
            /\ \/ /\ G.nodes = << >>
                  /\ results[i].num_periods = 0
               \/ \E c \in DOMAIN results[i].colors :
                    results[i].colors[c] = results[i].num_periods

\* All three have returned on a graph with a conflict; simulated annealing
\* moved away from its seed and leaves a period below its maximum unused.
C16_Witness ==
    /\ Len(results) = 3
    /\ \A i \in 1..3 : results[i].raised = "none"
    /\ Edges(G) # {}
    /\ results[1].num_periods >= 2
    /\ results[3].colors # SASeed(G, sa_args.initial)
    /\ \E p \in 1..results[3].num_periods :
         \A c \in DOMAIN results[3].colors : results[3].colors[c] # p

\* C17: two runs of greedy_coloring on the same graph return the same
\* assignment, and so do two runs of dsatur_coloring: a tie on the selection
\* key is resolved by the graph alone.
C17_SameGraphSameAssignment ==
    \A i, j \in DOMAIN results :
        (/\ IsColoringResult(results[i])
         /\ results[i].algorithm = results[j].algorithm)
        => results[i].colors = results[j].colors

\* The normalized course ids of the roster, none if no roster is supplied.
RosterCourses ==
    IF courses_df = << >> THEN {}
    ELSE {NormCourse(courses_df[1][i]) : i \in DOMAIN courses_df[1]}

\* The normalized course ids of the enrollments frame.
EnrolledCourses ==
    {NormCourse(enrollments[i].course_id) : i \in DOMAIN enrollments}

\* C18: the graph either builder returns has a node for every course of the
\* roster, with or without enrollment or conflict, and for every course of
\* the enrollment data, in the roster or not; neither builder fails.
C18_RosterAndEnrolledCoursesAreNodes ==
    /\ pc \in {"input", "idle"} =>
         (RosterCourses \cup EnrolledCourses) \subseteq Range(G_stu.nodes)
    /\ pc = "idle" =>
         (RosterCourses \cup EnrolledCourses) \subseteq Range(G.nodes)

\* Both builders have returned; a roster course has no enrollment and stays
\* isolated, and an enrolled course is not in the roster.
C18_Witness ==
    /\ pc = "idle"
    /\ RosterCourses \ EnrolledCourses # {}
    /\ EnrolledCourses \ RosterCourses # {}
    /\ \E c \in RosterCourses \ EnrolledCourses :
         c \in Isolated(G) /\ c \in Isolated(G_stu)
    /\ Edges(G) # {}

\* C19: on the same data and the same optional roster the two builders
\* return graphs with the same node set and the same edge set.
C19_BuildersAgree ==
    pc = "idle" =>
        /\ Range(G_stu.nodes) = Range(G.nodes)
        /\ G_stu.adj = G.adj

\* Both builders have returned on a frame with two students, one of them
\* with two courses written with blanks around them.
C19_Witness ==
    /\ pc = "idle"
    /\ Edges(G) # {}
    /\ Len(stu_lines) >= 2
    /\ \E i \in DOMAIN stu_lines :
         /\ Len(LineCourses(stu_lines[i])) >= 2
         /\ Len(stu_lines[i]) > Len(JoinBlank(LineCourses(stu_lines[i])))

\* The timeslot rows with the given id.
SlotsWithId(t) == {i \in DOMAIN timeslots : timeslots[i].timeslot_id = t}

\* The note of a row flagged for its period.
IsInvalidPeriodNote(note) ==
    Len(note) >= 14 /\ SubSeq(note, 1, 14) = "Invalid period"

\* C20: the table validate_durations returns has one row per course of the
\* period assignment; the row is not OK and noted as an invalid period if
\* the period has no timeslot entry; otherwise not OK and noted too long if
\* the course's duration exceeds the timeslot's; otherwise OK, a duration
\* equal to the timeslot's included.
C20_InvalidThenTooLongThenOK ==
    pc = "val_done" =>
        /\ Len(val_rows) = Cardinality(DOMAIN course_period)
        /\ \A c \in DOMAIN course_period :
             \E i \in DOMAIN val_rows :
                LET row == val_rows[i]
                    dur == DurationsOf(courses, c)[1]
                    at  == SlotsWithId(course_period[c])
                IN  /\ row.course_id = c
                    /\ row.timeslot_id = course_period[c]
                    /\ IF at = {}
                       THEN /\ ~row.exam_ok
                            /\ IsInvalidPeriodNote(row.note)
                       ELSE IF \E k \in at : dur > timeslots[k].duration_min
                       THEN ~row.exam_ok /\ row.note = "Too long"
                       ELSE row.exam_ok /\ row.note = "OK"

\* The call has returned a row of each kind, one of them for a course whose
\* duration equals the timeslot's.
C20_Witness ==
    /\ pc = "val_done"
    /\ \E i \in DOMAIN val_rows : IsInvalidPeriodNote(val_rows[i].note)
    /\ \E i \in DOMAIN val_rows : val_rows[i].note = "Too long"
    /\ \E i \in DOMAIN val_rows :
         /\ val_rows[i].note = "OK"
         /\ \E k \in DOMAIN timeslots :
              /\ timeslots[k].timeslot_id = val_rows[i].timeslot_id
              /\ timeslots[k].duration_min = val_rows[i].duration_min

\* C21: no step of greedy_coloring, dsatur_coloring or
\* simulated_annealing_coloring changes the conflict graph, and no step of
\* simulated_annealing_coloring changes the assignment the caller passed as
\* initial: only the working copy is written.
C21_GraphAndSeedUntouched ==
    [][G' = G /\ sa_args'.initial = sa_args.initial]_vars

\* All three have returned; simulated annealing was given a seed and
\* returns an assignment other than the seed, which the caller still holds.
C21_Witness ==
    /\ Len(results) = 3
    /\ IsSAResult(results[3])
    /\ results[3].raised = "none"
    /\ sa_args.initial # << >>
    /\ results[3].colors # sa_args.initial[1]
    /\ Edges(G) # {}

\* ord lists every course once, by non-increasing degree, courses of equal
\* degree by their position in the graph's node list.
IsDegreeOrder(ord) ==
    /\ Len(ord) = Len(G.nodes)
    /\ Range(ord) = Range(G.nodes)
    /\ \A i, j \in DOMAIN ord :
         i < j =>
            \/ Degree(G, ord[i]) > Degree(G, ord[j])
            \/ /\ Degree(G, ord[i]) = Degree(G, ord[j])
               /\ IndexOf(G.nodes, ord[i]) < IndexOf(G.nodes, ord[j])

\* p is the smallest positive period outside used.
IsSmallestFree(p, used) ==
    /\ p \in Nat \ {0}
    /\ p \notin used
    /\ \A q \in 1..(p - 1) : q \in used

\* C22: greedy_coloring visits the courses by non-increasing degree, courses
\* of equal degree in node insertion order, and every visited course has the
\* smallest positive period that no neighbor visited before it has.
C22_GreedyOrderAndSmallestFree ==
    pc = "greedy" =>
        /\ IsDegreeOrder(order)
        /\ DOMAIN color = {order[k] : k \in 1..(gi - 1)}
        /\ \A k \in 1..(gi - 1) :
             IsSmallestFree(color[order[k]],
                 {color[order[j]] : j \in
                     {j \in 1..(k - 1) : order[j] \in Neighbors(G, order[k])}})

\* All courses are visited; the sort moved a course forward, two courses of
\* equal degree kept their insertion order, and a course reuses period 1
\* while another needs a higher one.
C22_Witness ==
    /\ pc = "greedy"
    /\ gi > Len(order)
    /\ order # G.nodes
    /\ \E i, j \in DOMAIN order :
         i < j /\ Degree(G, order[i]) = Degree(G, order[j])
    /\ \E k \in 2..Len(order) : color[order[k]] = 1
    /\ \E k \in DOMAIN order : color[order[k]] >= 2

\* The number of neighbors of v that are still uncolored.
UncoloredNeighbors(v) == Cardinality(Neighbors(G, v) \cap uncolored)

\* The number of distinct periods among the colored neighbors of v.
DistinctNeighborPeriods(v) ==
    Cardinality({color[u] : u \in Neighbors(G, v) \cap DOMAIN color})

\* C23: every pick of dsatur_coloring is an uncolored course of maximal
\* saturation and, among the uncolored courses of maximal saturation, of
\* maximal number of still-uncolored neighbors; it gets the smallest period
\* none of its colored neighbors has.
C23_PickBySaturationThenUncoloredDegree ==
    [][(pc = "dsatur" /\ uncolored' # uncolored) =>
          \E v \in uncolored :
             /\ uncolored' = uncolored \ {v}
             /\ \A x \in uncolored :
                  DistinctNeighborPeriods(x) <= DistinctNeighborPeriods(v)
             /\ \A x \in uncolored :
                  DistinctNeighborPeriods(x) = DistinctNeighborPeriods(v)
                  => UncoloredNeighbors(x) <= UncoloredNeighbors(v)
             /\ IsSmallestFree(color'[v],
                   {color[u] : u \in Neighbors(G, v) \cap DOMAIN color})]_vars

\* C24: an iteration of simulated_annealing_coloring changes the period of
\* no course but the selected one and leaves the set of courses of the
\* assignment as it is; a proposal whose conflict delta is <= 0 is kept;
\* after a rejected proposal the working assignment and the tracked conflict
\* count are what they were before the iteration.
C24_OneCourseKeptOrReverted ==
    [][(pc = "sa_loop" /\ it' = it + 1) =>
          LET v        == drawn'.v
              new_c    == drawn'.new_c
              new_conf == CountConflicts(G, [current EXCEPT ![v] = new_c])
              dE       == new_conf - cur_conf
          IN  /\ DOMAIN current' = DOMAIN current
              /\ \A c \in DOMAIN current : c # v => current'[c] = current[c]
              /\ (new_c # current[v] /\ dE <= 0)
                 => current'[v] = new_c /\ cur_conf' = new_conf
              /\ (new_c # current[v] /\ dE > 0 /\ ~drawn'.u_accepts)
                 => current' = current /\ cur_conf' = cur_conf]_vars

\* The budget is used up; the last proposal was rejected and an earlier one
\* was kept.
C24_Witness ==
    /\ pc = "sa_end"
    /\ it = sa_args.max_iters
    /\ it >= 2
    /\ drawn # << >>
    /\ drawn.new_c # current[drawn.v]
    /\ current # SASeed(G, sa_args.initial)

\* C25: validate_durations does not raise; a course of the period
\* assignment without a record in the course table gets a row in the
\* returned table.
C25_ValidateNeverRaises ==
    /\ pc # "val_raised_IndexError"
    /\ pc = "val_done" =>
         \A c \in DOMAIN course_period :
            \E i \in DOMAIN val_rows : val_rows[i].course_id = c

\* C26: no step of build_conflict_graph_from_enrollments or of
\* allocate_rooms changes the tables the caller passed: the enrollments
\* frame keeps its student and course identifiers, the timeslot and room
\* frames keep their ids.
C26_InputTablesUntouched ==
    [][/\ enrollments' = enrollments
       /\ timeslots' = timeslots
       /\ classrooms' = classrooms]_vars

\* C27: the conflict count of every result of simulated_annealing_coloring
\* is at most the conflict count of its seed assignment; from a seed
\* without conflicts it returns an assignment without conflicts.
C27_NoWorseThanSeed ==
    \A i \in DOMAIN results :
        (IsSAResult(results[i]) /\ results[i].raised = "none")
        => /\ results[i].conflicts
                <= CountConflicts(G, SASeed(G, sa_args.initial))
           /\ CountConflicts(G, results[i].colors)
                <= CountConflicts(G, SASeed(G, sa_args.initial))

\* No edge joins two colored courses of the same period.
IsProperPartial(col) ==
    \A e \in Edges(G) :
        (e[1] \in DOMAIN col /\ e[2] \in DOMAIN col) => col[e[1]] # col[e[2]]

\* C28: during greedy_coloring and dsatur_coloring the partial assignment
\* is a proper coloring after every assignment step; each step colors
\* exactly one course that had no period and changes the period of no other.
C28_ProperAtEveryStep ==
    /\ [](pc \in {"greedy", "dsatur"} => IsProperPartial(color))
    /\ [][(\/ pc = "greedy" /\ gi' # gi /\ pc' = pc
           \/ pc = "dsatur" /\ uncolored' # uncolored)
          => \E v \in Range(G.nodes) \ DOMAIN color :
                /\ DOMAIN color' = DOMAIN color \cup {v}
                /\ \A c \in DOMAIN color : color'[c] = color[c]]_vars

\* DSATUR is halfway through a graph with a conflict: a course of period 2
\* is colored and another course is still uncolored.
C28_Witness ==
    /\ pc = "dsatur"
    /\ uncolored # {}
    /\ \E c \in DOMAIN color : color[c] = 2
    /\ Len(results) = 1
    /\ results[1].algorithm = "Greedy"

\* The positions of the rows of period t that carry -1.
SentinelRows(t) ==
    {i \in DOMAIN assignments :
        assignments[i].timeslot_id = t /\ assignments[i].classroom_id = -1}

\* C29: a course has a room smaller than its size only if, when it was
\* placed, no room unused in its period could hold it; it has -1 only if
\* every room was used in its period by then; so the rows of a period with
\* c courses carry -1 exactly max(0, c - r) times, r the number of rooms.
C29_UndersizedAndSentinelOnlyWhenForced ==
    /\ \A i \in DOMAIN assignments :
         LET size == SizeOf(course_enrollment, assignments[i].course_id)
             rid  == assignments[i].classroom_id
         IN  /\ (rid # -1 /\ CapacityOf(rid) < size)
                => \A r \in FreeBefore(i) : CapacityOf(r) < size
             /\ rid = -1 => FreeBefore(i) = {}
    /\ pc = "alloc_done" =>
         \A t \in ValidPeriods(timeslots) :
            LET c == Cardinality({x \in DOMAIN course_period : course_period[x] = t})
                r == Len(classrooms)
            IN  /\ Cardinality({i \in DOMAIN assignments :
                                  assignments[i].timeslot_id = t}) = c
                /\ Cardinality(SentinelRows(t)) = IF c > r THEN c - r ELSE 0

\* The call has returned; a period with three courses and one room has two
\* rows with -1 and the room went to a course it cannot hold.
C29_Witness ==
    /\ pc = "alloc_done"
    /\ Len(classrooms) = 1
    /\ \E t \in ValidPeriods(timeslots) :
         /\ Cardinality(SentinelRows(t)) = 2
         /\ \E i \in DOMAIN assignments :
              /\ assignments[i].timeslot_id = t
              /\ assignments[i].classroom_id # -1
              /\ CapacityOf(assignments[i].classroom_id)
                   < course_enrollment[assignments[i].course_id]

(***************************************************************************)
(* DSATUR and then simulated annealing from a seed the caller passes, run  *)
(* to completion: the interpreter executes the next statement of the       *)
(* running call whenever there is one, and the caller makes its next call  *)
(* when the running one has returned.                                      *)
(***************************************************************************)
InitTerminate ==
    /\ RoomsIdle
    /\ NoTables
    /\ G \in SAGraphs
    /\ sa_args \in {a \in SAArgs(G) : a.initial # << >> /\ a.max_iters = MaxIters}
    /\ todo = <<"DSATUR", "SimulatedAnnealing">>
    /\ pc = "idle"
    /\ results = << >>
    /\ ColIdle
    /\ SALocalsIdle

NextTerminate ==
    \/ DsaturStart
    \/ DsaturStep
    \/ DsaturReturn
    \/ SAStart
    \/ SAIter
    \/ SAReturn

SpecTerminate ==
    InitTerminate /\ [][NextTerminate]_vars /\ WF_vars(NextTerminate)

\* C30: every run terminates: while dsatur_coloring runs, the colored and
\* the uncolored courses together are the |V| courses and every pick takes
\* exactly one course out of uncolored, so the loop ends after |V| picks;
\* simulated annealing on a non-empty graph never begins more than max_iters
\* iterations, whatever is drawn; and in the end every call has returned.
C30_EveryRunTerminates ==
    /\ [](pc = "dsatur" =>
            /\ uncolored \cap DOMAIN color = {}
            /\ Cardinality(DOMAIN color) + Cardinality(uncolored) = Len(G.nodes))
    /\ [][pc = "dsatur" /\ pc' = "dsatur"
            => Cardinality(uncolored') = Cardinality(uncolored) - 1]_vars
    /\ []((pc \in {"sa_loop", "sa_end"} /\ G.nodes # << >>) =>
            /\ it <= sa_args.max_iters
            /\ pc = "sa_loop" => it < sa_args.max_iters)
    /\ <>[](pc = "idle" /\ todo = << >>)

\* Simulated annealing has used up max_iters iterations on three courses,
\* every proposal was the course's current period and a conflict is left;
\* DSATUR returned before it with its three courses colored.
C30_Witness ==
    /\ pc = "sa_end"
    /\ Len(G.nodes) = 3
    /\ sa_args.max_iters = MaxIters
    /\ it = sa_args.max_iters
    /\ T_decays = 0
    /\ cur_conf > 0
    /\ Len(results) = 1
    /\ results[1].algorithm = "DSATUR"
    /\ Cardinality(DOMAIN results[1].colors) = 3

====
